---------------------------- MODULE Spec2Model ----------------------------
(***************************************************************************)
(* RPG Admin API: a FastAPI route set (main.py) over a MongoDB adapter     *)
(* (database.py), validated by a registry of Pydantic models (schemas.py). *)
(*                                                                         *)
(* JSON / BSON values are records [k, n, s, c]:                            *)
(*   k  the kind: "null", "str", "int", "float", "bool", "obj", "list",    *)
(*      "datetime" (a BSON date) or "error" (a raised ValidationError);    *)
(*   n  the number of an int, a bool (0/1), a float in tenths (25 is 2.5)  *)
(*      or the instant of a datetime;                                      *)
(*   s  the text of a str;                                                 *)
(*   c  the members of an obj by key, the elements of a list by index      *)
(*      ("0", "1", ...), empty otherwise.                                  *)
(* A document (a Python dict) is the function from its keys to values.    *)
(***************************************************************************)
EXTENDS Integers, Sequences, FiniteSets, Bags, TLC

NoKids == [x \in {} |-> 0]

\* Python's None where a dict is expected; like the empty dict it is falsy.
None == NoKids

JNull == [k |-> "null", n |-> 0, s |-> "", c |-> NoKids]
JStr(x) == [k |-> "str", n |-> 0, s |-> x, c |-> NoKids]
JInt(i) == [k |-> "int", n |-> i, s |-> "", c |-> NoKids]
JFloat(tenths) == [k |-> "float", n |-> tenths, s |-> "", c |-> NoKids]
JBool(b) == [k |-> "bool", n |-> IF b THEN 1 ELSE 0, s |-> "", c |-> NoKids]
JObj(f) == [k |-> "obj", n |-> 0, s |-> "", c |-> f]
JList(q) == [k |-> "list", n |-> 0, s |-> "",
            c |-> [i \in {ToString(j - 1) : j \in 1..Len(q)} |->
                     q[CHOOSE j \in 1..Len(q) : ToString(j - 1) = i]]]
Datetime(t) == [k |-> "datetime", n |-> t, s |-> "", c |-> NoKids]
ValidationError == [k |-> "error", n |-> 0, s |-> "", c |-> NoKids]

(***************************************************************************)
(* schemas.py: the field descriptors of the Pydantic models.               *)
(*   t    "str", "int", "float", "bool", "literal", "model", "list",       *)
(*        "dict";  opt: Optional[...];  lits: the Literal's values;        *)
(*   ge/lo, le/hi: Field(ge=..), Field(le=..) (floats in tenths);          *)
(*   ref  the nested model, the list's element ("str" or a model);         *)
(*   dk   "required", "value" (default dv) or "factory".                   *)
(***************************************************************************)
Fld(t) == [t |-> t, opt |-> FALSE, lits |-> {}, ge |-> FALSE, lo |-> 0,
           le |-> FALSE, hi |-> 0, ref |-> "", dk |-> "required", dv |-> JNull]
ReqStr == Fld("str")
OptStr == [Fld("str") EXCEPT !.opt = TRUE, !.dk = "value"]
IntDef(d) == [Fld("int") EXCEPT !.dk = "value", !.dv = JInt(d)]
IntGe(d, lo) == [Fld("int") EXCEPT !.dk = "value", !.dv = JInt(d), !.ge = TRUE, !.lo = lo]
FloatGe(d, lo) == [Fld("float") EXCEPT !.dk = "value", !.dv = JFloat(d), !.ge = TRUE, !.lo = lo]
Lit(vals, d) == [Fld("literal") EXCEPT !.lits = vals, !.dk = "value", !.dv = JStr(d)]
ModelFactory(m) == [Fld("model") EXCEPT !.ref = m, !.dk = "factory"]
OptModel(m) == [Fld("model") EXCEPT !.ref = m, !.opt = TRUE, !.dk = "value"]
ListOf(e) == [Fld("list") EXCEPT !.ref = e, !.dk = "factory"]

Rarities == {"common", "uncommon", "rare", "epic", "legendary", "mythic"}
Stats == {"strength", "agility", "intelligence", "vitality", "luck", "defense", "power"}

StatBlock == [f \in Stats |-> IntDef(0)]

RecipeIngredient ==
    "item_id" :> ReqStr @@
    "quantity" :> IntGe(1, 1)

Recipe ==
    "ingredients" :> ListOf("RecipeIngredient") @@
    "crafting_time_sec" :> IntGe(0, 0) @@
    "crafting_cost" :> IntGe(0, 0)

ImageData ==
    "url" :> OptStr @@
    "alt" :> OptStr

Item ==
    "name" :> ReqStr @@
    "description" :> OptStr @@
    "item_type" :> Lit({"weapon", "armor", "accessory", "set", "consumable",
                        "material", "key", "misc"}, "misc") @@
    "rarity" :> Lit(Rarities, "common") @@
    "price" :> IntGe(0, 0) @@
    "image" :> OptModel("ImageData") @@
    "stats" :> ModelFactory("StatBlock") @@
    "set_parts" :> ListOf("str") @@
    "recipe" :> OptModel("Recipe") @@
    "tradable" :> [Fld("bool") EXCEPT !.dk = "value", !.dv = JBool(TRUE)] @@
    "stack_size" :> IntGe(1, 1) @@
    "tags" :> ListOf("str")

LootEntry ==
    "item_id" :> ReqStr @@
    "drop_rate" :> [Fld("float") EXCEPT !.ge = TRUE, !.lo = 0, !.le = TRUE, !.hi = 10] @@
    "quantity_min" :> IntGe(1, 1) @@
    "quantity_max" :> IntGe(1, 1)

LootTable ==
    "name" :> ReqStr @@
    "chest_type" :> Lit({"wood", "iron", "gold", "diamond", "event", "boss",
                         "custom"}, "custom") @@
    "entries" :> ListOf("LootEntry") @@
    "rolls" :> IntGe(1, 1)

Reward ==
    "gold" :> IntDef(0) @@
    "exp" :> IntDef(0) @@
    "items" :> ListOf("LootEntry")

StatCheck ==
    "stat" :> [Fld("literal") EXCEPT !.lits = Stats] @@
    "threshold" :> [Fld("int") EXCEPT !.ge = TRUE, !.lo = 0] @@
    "success_modifier" :> FloatGe(10, 0) @@
    "fail_penalty" :> FloatGe(10, 0)

Expedition ==
    "name" :> ReqStr @@
    "description" :> OptStr @@
    "duration_minutes" :> IntGe(30, 1) @@
    "base_rewards" :> ModelFactory("Reward") @@
    "loot_table_id" :> OptStr @@
    "loot_rolls" :> IntGe(1, 0) @@
    "stat_checks" :> ListOf("StatCheck") @@
    "recommended_stats" :> ModelFactory("StatBlock") @@
    "required_level" :> IntGe(1, 1)

Title ==
    "name" :> ReqStr @@
    "description" :> OptStr @@
    "rarity" :> Lit(Rarities, "common") @@
    "acquisition" :> OptStr

Background ==
    "name" :> ReqStr @@
    "description" :> OptStr @@
    "image" :> OptModel("ImageData") @@
    "rarity" :> Lit(Rarities, "common")

ActivityReward ==
    "activity_key" :> ReqStr @@
    "base_rewards" :> ModelFactory("Reward") @@
    "loot_table_id" :> OptStr @@
    "loot_rolls" :> IntGe(0, 0) @@
    "modifiers" :> [Fld("dict") EXCEPT !.ref = "float", !.dk = "factory"]

\* Every BaseModel subclass of schemas.py, by class name.
Models ==
    "StatBlock" :> StatBlock @@
    "RecipeIngredient" :> RecipeIngredient @@
    "Recipe" :> Recipe @@
    "ImageData" :> ImageData @@
    "Item" :> Item @@
    "LootEntry" :> LootEntry @@
    "LootTable" :> LootTable @@
    "Reward" :> Reward @@
    "StatCheck" :> StatCheck @@
    "Expedition" :> Expedition @@
    "Title" :> Title @@
    "Background" :> Background @@
    "ActivityReward" :> ActivityReward

MODEL_REGISTRY ==
    "item" :> "Item" @@
    "loottable" :> "LootTable" @@
    "expedition" :> "Expedition" @@
    "title" :> "Title" @@
    "background" :> "Background" @@
    "activityreward" :> "ActivityReward"

(***************************************************************************)
(* The requests the clients send.                                          *)
(***************************************************************************)
MaxDocs == 1
MaxClock == 1
MaxInFlight == 2

\* The {collection} path parameters: a registered name in two letter cases
\* and a name the registry does not have.
Collections == {"loottable", "LootTable", "quest"}

\* The k-th identifier insert_one generates; no two are the same.
NewObjectId(k) == "65f0c0ffee00000000000ab" \o ToString(k)

\* The {doc_id} path parameters: the generated ids and a malformed one (its
\* last character is no hex digit).
Malformed == {"65f0c0ffee00000000000abg"}
DocIds == {NewObjectId(j) : j \in 0..(MaxDocs - 1)} \cup Malformed

\* The bodies of the POST requests.
Rolled == "name" :> JStr("Hero") @@ "rolls" :> JStr("3") @@ "bogus" :> JInt(1)
BadType == "name" :> JStr("Hero") @@ "chest_type" :> JStr("not-a-real-type")
CreateData == {Rolled, BadType}

\* The bodies of the PUT requests.
Spoof ==
    "id" :> JStr("spoof") @@ "_id" :> JStr("spoof") @@
    "created_at" :> JStr("spoof") @@ "updated_at" :> JStr("spoof") @@
    "chest_type" :> JStr("gold") @@ "bogus" :> JInt(1)
BadDrop ==
    "entries" :> JList(<<JObj("item_id" :> JStr("gem") @@ "drop_rate" :> JFloat(25))>>)
UpdateData == {Spoof, BadDrop}

\* schemas.py get_model_by_collection's collection.lower(), letter by letter.
LowerOf ==
    "A" :> "a" @@ "B" :> "b" @@ "C" :> "c" @@ "D" :> "d" @@ "E" :> "e" @@
    "F" :> "f" @@ "G" :> "g" @@ "H" :> "h" @@ "I" :> "i" @@ "J" :> "j" @@
    "K" :> "k" @@ "L" :> "l" @@ "M" :> "m" @@ "N" :> "n" @@ "O" :> "o" @@
    "P" :> "p" @@ "Q" :> "q" @@ "R" :> "r" @@ "S" :> "s" @@ "T" :> "t" @@
    "U" :> "u" @@ "V" :> "v" @@ "W" :> "w" @@ "X" :> "x" @@ "Y" :> "y" @@
    "Z" :> "z"

RECURSIVE Lower(_)
Lower(str) ==
    IF str = "" THEN ""
    ELSE (IF Head(str) \in DOMAIN LowerOf THEN LowerOf[Head(str)] ELSE Head(str))
         \o Lower(Tail(str))

\* MODEL_REGISTRY.get(collection.lower()), the model's class name or "" for
\* None, tabulated for the names the requests use.
RegistryGet ==
    [collection \in Collections |->
       IF Lower(collection) \in DOMAIN MODEL_REGISTRY
       THEN MODEL_REGISTRY[Lower(collection)]
       ELSE ""]

get_model_by_collection(collection) == RegistryGet[collection]

(***************************************************************************)
(* Pydantic's construction of a model from keyword data followed by        *)
(* model_dump: each                                                        *)
(* declared field is validated (lax mode: a numeric str or a whole float   *)
(* becomes an int, an int or a numeric str a float), an absent one takes   *)
(* its default, an undeclared key is ignored (extra = "ignore").           *)
(***************************************************************************)
DigitOf ==
    "0" :> 0 @@ "1" :> 1 @@ "2" :> 2 @@ "3" :> 3 @@ "4" :> 4 @@
    "5" :> 5 @@ "6" :> 6 @@ "7" :> 7 @@ "8" :> 8 @@ "9" :> 9

RECURSIVE IsDigits(_)
IsDigits(str) ==
    str = "" \/ (Head(str) \in DOMAIN DigitOf /\ IsDigits(Tail(str)))

RECURSIVE ParseDigits(_, _)
ParseDigits(str, acc) ==
    IF str = "" THEN acc
    ELSE ParseDigits(Tail(str), acc * 10 + DigitOf[Head(str)])

IsNumeric(str) == str # "" /\ IsDigits(str)

InRange(d, x) == (d.ge => x >= d.lo) /\ (d.le => x <= d.hi)

\* int: the number, or the error value.
ValidateInt(d, v) ==
    LET x == CASE v.k = "int" -> JInt(v.n)
               [] v.k = "bool" -> JInt(v.n)
               [] v.k = "float" /\ v.n % 10 = 0 -> JInt(v.n \div 10)
               [] v.k = "str" /\ IsNumeric(v.s) -> JInt(ParseDigits(v.s, 0))
               [] OTHER -> ValidationError
    IN  IF x.k = "int" /\ InRange(d, x.n) THEN x ELSE ValidationError

ValidateFloat(d, v) ==
    LET x == CASE v.k = "float" -> JFloat(v.n)
               [] v.k = "int" -> JFloat(v.n * 10)
               [] v.k = "bool" -> JFloat(v.n * 10)
               [] v.k = "str" /\ IsNumeric(v.s) -> JFloat(ParseDigits(v.s, 0) * 10)
               [] OTHER -> ValidationError
    IN  IF x.k = "float" /\ InRange(d, x.n) THEN x ELSE ValidationError

ValidateBool(v) ==
    CASE v.k = "bool" -> v
      [] v.k = "int" /\ v.n \in {0, 1} -> JBool(v.n = 1)
      [] v.k = "float" /\ v.n \in {0, 10} -> JBool(v.n = 10)
      [] v.k = "str" /\ v.s \in {"1", "true", "t", "yes", "y", "on"} -> JBool(TRUE)
      [] v.k = "str" /\ v.s \in {"0", "false", "f", "no", "n", "off"} -> JBool(FALSE)
      [] OTHER -> ValidationError

HasError(f) == \E key \in DOMAIN f : f[key].k = "error"

RECURSIVE ValidateField(_, _), ValidateModel(_, _), DefaultOf(_)

\* The value a field takes when the data does not name it.
DefaultOf(d) ==
    CASE d.dk = "required" -> ValidationError
      [] d.dk = "value" -> d.dv
      [] d.dk = "factory" /\ d.t = "model" -> ValidateModel(d.ref, NoKids)
      [] d.dk = "factory" /\ d.t = "list" -> JList(<<>>)
      [] d.dk = "factory" /\ d.t = "dict" -> JObj(NoKids)

\* The model built from data, dumped: the object, or the error value.
ValidateModel(m, data) ==
    LET out == [f \in DOMAIN Models[m] |->
                  IF f \in DOMAIN data
                  THEN ValidateField(Models[m][f], data[f])
                  ELSE DefaultOf(Models[m][f])]
    IN  IF HasError(out) THEN ValidationError ELSE JObj(out)

ValidateField(d, v) ==
    LET each(elem) ==
            [i \in DOMAIN v.c |->
               IF elem \in DOMAIN Models
               THEN (IF v.c[i].k = "obj"
                     THEN ValidateModel(elem, v.c[i].c) ELSE ValidationError)
               ELSE ValidateField(Fld(elem), v.c[i])]
    IN  CASE v.k = "null" -> IF d.opt THEN JNull ELSE ValidationError
          [] v.k # "null" /\ d.t = "str" ->
                IF v.k = "str" THEN v ELSE ValidationError
          [] v.k # "null" /\ d.t = "literal" ->
                IF v.k = "str" /\ v.s \in d.lits THEN v ELSE ValidationError
          [] v.k # "null" /\ d.t = "int" -> ValidateInt(d, v)
          [] v.k # "null" /\ d.t = "float" -> ValidateFloat(d, v)
          [] v.k # "null" /\ d.t = "bool" -> ValidateBool(v)
          [] v.k # "null" /\ d.t = "model" ->
                IF v.k = "obj" THEN ValidateModel(d.ref, v.c) ELSE ValidationError
          [] v.k # "null" /\ d.t = "list" ->
                IF v.k = "list" /\ ~HasError(each(d.ref))
                THEN [v EXCEPT !.c = each(d.ref)] ELSE ValidationError
          [] v.k # "null" /\ d.t = "dict" ->
                IF v.k = "obj" /\ ~HasError(each(d.ref))
                THEN [v EXCEPT !.c = each(d.ref)] ELSE ValidationError

(***************************************************************************)
(* database.py                                                             *)
(***************************************************************************)
HexDigits ==
    {"0", "1", "2", "3", "4", "5", "6", "7", "8", "9",
     "a", "b", "c", "d", "e", "f", "A", "B", "C", "D", "E", "F"}

RECURSIVE IsHex(_)
IsHex(str) == str = "" \/ (Head(str) \in HexDigits /\ IsHex(Tail(str)))

\* bson's ObjectId(doc_id) accepts a str of 24 hex digits and raises
\* otherwise; str() prints the parsed id in lowercase.  Tabulated for the
\* ids the requests use.
ObjectIdOf ==
    [doc_id \in DocIds |->
       [valid |-> Len(doc_id) = 24 /\ IsHex(doc_id), oid |-> Lower(doc_id)]]

IsObjectId(doc_id) == ObjectIdOf[doc_id].valid

ObjectId(doc_id) == ObjectIdOf[doc_id].oid

\* datetime.isoformat() of the UTC instant t.
isoformat(t) == "2026-01-01T00:00:0" \o ToString(t) \o "+00:00"

\* _to_dict of a validated model: its model_dump().
to_dict(obj) == obj.c

\* serialize_doc leaving the store's _id in place.
serialize_doc_raw_id(doc) ==
    [f \in DOMAIN doc |->
       IF doc[f].k = "datetime" THEN JStr(isoformat(doc[f].n)) ELSE doc[f]]

serialize_doc(doc) ==
    LET renamed ==
            IF "_id" \in DOMAIN doc /\ doc["_id"].k # "null"
            THEN [f \in (DOMAIN doc \ {"_id"}) \cup {"id"} |->
                    IF f = "id" THEN JStr(doc["_id"].s) ELSE doc[f]]
            ELSE doc
    IN  [f \in DOMAIN renamed |->
           IF renamed[f].k = "datetime" THEN JStr(isoformat(renamed[f].n))
           ELSE renamed[f]]

\* The _id of a stored document.
OidValue(oid) == [k |-> "oid", n |-> 0, s |-> oid, c |-> NoKids]

\* create_document's data_dict, as insert_one stores it under the fresh _id oid,
\* stamped at the two clock readings t1 and t2; it raises when db is None.
create_document(db_, data, oid, t1, t2) ==
    IF ~db_ THEN [raised |-> TRUE, doc |-> None]
    ELSE [raised |-> FALSE,
          doc |-> [f \in DOMAIN to_dict(data) \cup {"created_at", "updated_at", "_id"} |->
                     CASE f = "_id" -> OidValue(oid)
                       [] f = "created_at" -> Datetime(t1)
                       [] f = "updated_at" -> Datetime(t2)
                       [] OTHER -> to_dict(data)[f]]]

\* get_document_by_id without its try/except around ObjectId(doc_id).
get_document_by_id_uncaught(db_, coll, doc_id) ==
    IF ~db_ \/ ~IsObjectId(doc_id) THEN [raised |-> TRUE, doc |-> None]
    ELSE IF ObjectId(doc_id) \in DOMAIN coll
         THEN [raised |-> FALSE, doc |-> serialize_doc(coll[ObjectId(doc_id)])]
         ELSE [raised |-> FALSE, doc |-> None]

\* get_document_by_id on the collection coll (its documents by _id).
get_document_by_id(db_, coll, doc_id) ==
    IF ~db_ THEN [raised |-> TRUE, doc |-> None]
    ELSE IF ~IsObjectId(doc_id) THEN [raised |-> FALSE, doc |-> None]
    ELSE IF ObjectId(doc_id) \in DOMAIN coll
         THEN [raised |-> FALSE, doc |-> serialize_doc(coll[ObjectId(doc_id)])]
         ELSE [raised |-> FALSE, doc |-> None]

Reserved == {"_id", "id", "created_at", "updated_at"}

\* update_document without the filter on the reserved keys.
update_document_unstripped(db_, doc_id, data, t) ==
    IF ~db_ THEN [raised |-> TRUE, ok |-> FALSE, set |-> NoKids]
    ELSE IF ~IsObjectId(doc_id) THEN [raised |-> FALSE, ok |-> FALSE, set |-> NoKids]
    ELSE [raised |-> FALSE, ok |-> TRUE,
          set |-> [f \in DOMAIN data \cup {"updated_at"} |->
                     IF f \in DOMAIN data THEN data[f] ELSE Datetime(t)]]

\* update_document up to its clock reading: the $set document, the data less
\* the reserved keys and stamped; ok is FALSE where it has returned False.
update_document(db_, doc_id, data, t) ==
    IF ~db_ THEN [raised |-> TRUE, ok |-> FALSE, set |-> NoKids]
    ELSE IF ~IsObjectId(doc_id) THEN [raised |-> FALSE, ok |-> FALSE, set |-> NoKids]
    ELSE [raised |-> FALSE, ok |-> TRUE,
          set |-> [f \in (DOMAIN data \ Reserved) \cup {"updated_at"} |->
                     IF f = "updated_at" THEN Datetime(t) ELSE data[f]]]

\* update_one with upsert=True: an absent document is inserted.
update_one_upsert(coll, oid, set) ==
    IF oid \in DOMAIN coll
    THEN [ok |-> TRUE,
          coll |-> [coll EXCEPT ![oid] =
                      [f \in DOMAIN coll[oid] \cup DOMAIN set |->
                         IF f \in DOMAIN set THEN set[f] ELSE coll[oid][f]]]]
    ELSE [ok |-> FALSE, coll |-> (oid :> set) @@ coll]

\* update_document's update_one({"_id": oid}, {"$set": set}) and its result,
\* res.matched_count > 0.
update_one(coll, oid, set) ==
    IF oid \in DOMAIN coll
    THEN [ok |-> TRUE,
          coll |-> [coll EXCEPT ![oid] =
                      [f \in DOMAIN coll[oid] \cup DOMAIN set |->
                         IF f \in DOMAIN set THEN set[f] ELSE coll[oid][f]]]]
    ELSE [ok |-> FALSE, coll |-> coll]

\* delete_document answering True whatever delete_one removed.
delete_document_always_ok(db_, coll, doc_id) ==
    IF ~db_ THEN [raised |-> TRUE, ok |-> FALSE, coll |-> coll]
    ELSE IF ~IsObjectId(doc_id) THEN [raised |-> FALSE, ok |-> FALSE, coll |-> coll]
    ELSE [raised |-> FALSE, ok |-> TRUE,
          coll |-> [o \in DOMAIN coll \ {ObjectId(doc_id)} |-> coll[o]]]

delete_document(db_, coll, doc_id) ==
    IF ~db_ THEN [raised |-> TRUE, ok |-> FALSE, coll |-> coll]
    ELSE IF ~IsObjectId(doc_id) THEN [raised |-> FALSE, ok |-> FALSE, coll |-> coll]
    ELSE [raised |-> FALSE,
          ok |-> ObjectId(doc_id) \in DOMAIN coll,
          coll |-> [o \in DOMAIN coll \ {ObjectId(doc_id)} |-> coll[o]]]

(***************************************************************************)
(* main.py: the routes.  A PUT reads the store, then the clock, then       *)
(* writes the store; other requests run between these steps.               *)
(***************************************************************************)
VARIABLES
    db,         \* database.py's db is not None
    store,      \* db[collection_name]: the documents of a collection by _id
    now,        \* the UTC clock
    next_id,    \* how many documents insert_one has stored
    inflight,   \* the PUT requests between two of their steps (a bag)
    resp        \* the request just answered, with its response, until sent

vars == <<db, store, now, next_id, inflight, resp>>

Response(op, collection, doc_id, data, status, body) ==
    [op |-> op, collection |-> collection, doc_id |-> doc_id, data |-> data,
     status |-> status, body |-> body]

Ok == "ok" :> JBool(TRUE)

NoResponse == Response("none", "", "", NoKids, 0, NoKids)

\* No handler reads resp: a step waits for the previous response to be sent,
\* so that resp describes the step that has just been taken.
Sent == resp = NoResponse

Init ==
    /\ db \in BOOLEAN
    /\ store = [name \in Collections |-> NoKids]
    /\ now = 0
    /\ next_id = 0
    /\ inflight = EmptyBag
    /\ resp = NoResponse

\* The clock advances.
Tick ==
    /\ Sent
    /\ now < MaxClock
    /\ now' = now + 1
    /\ UNCHANGED <<db, store, next_id, inflight, resp>>

\* GET /api/{collection}/{doc_id}
get_document(collection, doc_id) ==
    LET model == get_model_by_collection(collection)
        found == get_document_by_id(db, store[collection], doc_id)
        R(status, body) == Response("get", collection, doc_id, NoKids, status, body)
    IN  /\ Sent
        /\ resp' = IF model = "" THEN R(404, NoKids)
                   ELSE IF found.raised THEN R(500, NoKids)
                   ELSE IF found.doc = None THEN R(404, NoKids)
                   ELSE R(200, found.doc)
        /\ UNCHANGED <<db, store, now, next_id, inflight>>

\* POST /api/{collection}.  The ValidationError of model(...) is a pydantic
\* error raised inside the handler, for which the app registers no handler:
\* the response is 500.  The clock may advance between the two readings of
\* create_document.
create(collection, data) ==
    LET model == get_model_by_collection(collection)
        obj == ValidateModel(model, data)
        oid == NewObjectId(next_id)
        R(status, body) == Response("create", collection, "", data, status, body)
    IN  /\ Sent
        /\ IF model = ""
           THEN /\ resp' = R(404, NoKids)
                /\ UNCHANGED <<store, now, next_id>>
           ELSE IF obj.k = "error"
           THEN /\ resp' = R(500, NoKids)
                /\ UNCHANGED <<store, now, next_id>>
           ELSE IF create_document(db, obj, oid, now, now).raised
           THEN /\ resp' = R(500, NoKids)
                /\ UNCHANGED <<store, now, next_id>>
           ELSE /\ next_id < MaxDocs
                /\ \E t2 \in {t \in {now, now + 1} : t <= MaxClock} :
                     LET made == create_document(db, obj, oid, now, t2)
                     IN  /\ now' = t2
                         /\ store' = [store EXCEPT ![collection] = (oid :> made.doc) @@ @]
                         /\ resp' = R(200, "id" :> JStr(made.doc["_id"].s))
                /\ next_id' = next_id + 1
        /\ UNCHANGED <<db, inflight>>

\* The merged dict: the existing fields overlaid with the payload's, less "id".
Merged(existing, data) ==
    [f \in (DOMAIN existing \cup DOMAIN data) \ {"id"} |->
       IF f \in DOMAIN data THEN data[f] ELSE existing[f]]

\* The PUT handler skipping the validation of the merged document.
MergeIsValid_skipped(model, existing, data) == TRUE

\* The construction of the model from the merged fields does not raise.
MergeIsValid(model, existing, data) ==
    ValidateModel(model, Merged(existing, data)).k # "error"

\* PUT /api/{collection}/{doc_id}, to the call of update_document: the
\* existence check and the validation of the merged document.
update(collection, doc_id, data) ==
    LET model == get_model_by_collection(collection)
        found == get_document_by_id(db, store[collection], doc_id)
        R(status) == Response("update", collection, doc_id, data, status, NoKids)
    IN  /\ Sent
        /\ BagCardinality(inflight) < MaxInFlight
        /\ IF model = "" THEN resp' = R(404) /\ UNCHANGED inflight
           ELSE IF found.raised THEN resp' = R(500) /\ UNCHANGED inflight
           ELSE IF found.doc = None THEN resp' = R(404) /\ UNCHANGED inflight
           ELSE IF ~MergeIsValid(model, found.doc, data)
           THEN resp' = R(500) /\ UNCHANGED inflight
           ELSE /\ inflight' = inflight (+) SetToBag({
                        [pc |-> "update_document", collection |-> collection,
                         doc_id |-> doc_id, data |-> data, set |-> NoKids]})
                /\ UNCHANGED resp
        /\ UNCHANGED <<db, store, now, next_id>>

\* PUT, update_document to its clock reading.
update_stamp(r) ==
    LET u == update_document(db, r.doc_id, r.data, now)
        R(status) == Response("update", r.collection, r.doc_id, r.data, status, NoKids)
        rest == inflight (-) SetToBag({r})
    IN  /\ Sent
        /\ r.pc = "update_document"
        /\ IF u.raised THEN resp' = R(500) /\ inflight' = rest
           ELSE IF ~u.ok THEN resp' = R(400) /\ inflight' = rest
           ELSE /\ inflight' = rest (+) SetToBag({[r EXCEPT !.pc = "update_one", !.set = u.set]})
                /\ UNCHANGED resp
        /\ UNCHANGED <<db, store, now, next_id>>

\* PUT, update_one and the response.
update_write(r) ==
    LET res == update_one(store[r.collection], ObjectId(r.doc_id), r.set)
        R(status, body) ==
            Response("update", r.collection, r.doc_id, r.data, status, body)
    IN  /\ Sent
        /\ r.pc = "update_one"
        /\ store' = [store EXCEPT ![r.collection] = res.coll]
        /\ resp' = IF res.ok THEN R(200, Ok) ELSE R(400, NoKids)
        /\ inflight' = inflight (-) SetToBag({r})
        /\ UNCHANGED <<db, now, next_id>>

\* DELETE /api/{collection}/{doc_id}
delete(collection, doc_id) ==
    LET model == get_model_by_collection(collection)
        res == delete_document(db, store[collection], doc_id)
        R(status, body) == Response("delete", collection, doc_id, NoKids, status, body)
    IN  /\ Sent
        /\ IF model = ""
           THEN /\ resp' = R(404, NoKids)
                /\ UNCHANGED store
           ELSE /\ resp' = IF res.raised THEN R(500, NoKids)
                           ELSE IF ~res.ok THEN R(404, NoKids)
                           ELSE R(200, Ok)
                /\ store' = [store EXCEPT ![collection] = res.coll]
        /\ UNCHANGED <<db, now, next_id, inflight>>

\* The response leaves for the client.
send ==
    /\ ~Sent
    /\ resp' = NoResponse
    /\ UNCHANGED <<db, store, now, next_id, inflight>>

Next ==
    \/ Tick
    \/ send
    \/ \E collection \in Collections, doc_id \in DocIds : get_document(collection, doc_id)
    \/ \E collection \in Collections, data \in CreateData : create(collection, data)
    \/ \E collection \in Collections, doc_id \in DocIds, data \in UpdateData :
          update(collection, doc_id, data)
    \/ \E r \in BagToSet(inflight) : update_stamp(r)
    \/ \E r \in BagToSet(inflight) : update_write(r)
    \/ \E collection \in Collections, doc_id \in DocIds : delete(collection, doc_id)

Spec == Init /\ [][Next]_vars

(***************************************************************************)
(* The claims.                                                             *)
(***************************************************************************)
Registered(collection) == get_model_by_collection(collection) # ""

\* A step that answers a request.
Answers(op) == Sent /\ resp'.op = op

\* The PUT requests that enter update_document in this step.
Entering ==
    {r \in BagToSet(inflight') :
        /\ r.pc = "update_document"
        /\ CopiesIn(r, inflight') > CopiesIn(r, inflight)}

\* The merged document of a PUT fails the validation of the collection's model.
MergeFails(collection, doc_id, data) ==
    LET found == get_document_by_id(db, store[collection], doc_id)
    IN  /\ Registered(collection)
        /\ found.doc # None
        /\ ValidateModel(get_model_by_collection(collection),
                         [f \in (DOMAIN found.doc \cup DOMAIN data) \ {"id"} |->
                            IF f \in DOMAIN data THEN data[f] ELSE found.doc[f]]).k = "error"

\* C1: a PUT on an existing document whose fields, merged over the stored
\* document, fail the validation never enters update_document; it is answered
\* with an error and the store, hence what a GET of the id returns, is as before.
C1_InvalidPutWritesNothing ==
    [][/\ \A r \in Entering : ~MergeFails(r.collection, r.doc_id, r.data)
       /\ (Answers("update") /\ inflight' = inflight
             /\ MergeFails(resp'.collection, resp'.doc_id, resp'.data))
          => /\ resp'.status >= 400
             /\ store' = store
             /\ get_document_by_id(db, store'[resp'.collection], resp'.doc_id)
                  = get_document_by_id(db, store[resp'.collection], resp'.doc_id)]_vars

\* A PUT with an out-of-range drop_rate has been rejected and its document is
\* still stored.
C1_Witness ==
    /\ resp.op = "update" /\ resp.status = 500 /\ resp.data = BadDrop
    /\ ObjectId(resp.doc_id) \in DOMAIN store[resp.collection]

\* The record a GET returns for the document a create has just answered with.
Created == get_document_by_id(db, store[resp.collection], resp.body["id"].s).doc

ServerFields == {"id", "created_at", "updated_at"}

\* C2 as stated: the record read back after a create has the payload's
\* fields, with the payload's values, plus id, created_at and updated_at.
C2_Original ==
    (resp.op = "create" /\ resp.status = 200) =>
        /\ DOMAIN Created = DOMAIN resp.data \cup ServerFields
        /\ \A f \in DOMAIN resp.data : Created[f] = resp.data[f]
        /\ Created["id"] = resp.body["id"]

\* C2 amended: the record read back after a create has exactly the declared
\* fields of the collection's model plus id, created_at and updated_at; a
\* declared field holds the payload's value as validation coerced it, or its
\* default where the payload omits it; id is the identifier returned and the
\* timestamps are texts.
C2_RoundTrip ==
    (resp.op = "create" /\ resp.status = 200) =>
        LET shape == Models[get_model_by_collection(resp.collection)]
        IN  /\ DOMAIN Created = DOMAIN shape \cup ServerFields
            /\ \A f \in DOMAIN shape :
                  Created[f] = IF f \in DOMAIN resp.data
                               THEN ValidateField(shape[f], resp.data[f])
                               ELSE DefaultOf(shape[f])
            /\ Created["id"] = resp.body["id"]
            /\ Created["id"].k = "str"
            /\ Created["created_at"].k = "str"
            /\ Created["updated_at"].k = "str"

\* A create of a payload with a coerced, an undeclared and omitted fields has
\* been answered and its document is stored.
C2_Witness ==
    /\ resp.op = "create" /\ resp.status = 200 /\ resp.data = Rolled
    /\ Created # None

\* C3: a successful update changes, in the stored document, only the fields
\* of the payload outside _id, id, created_at, updated_at, which take the
\* payload's values, and updated_at, which takes a clock reading; _id,
\* created_at and the fields the payload does not name keep their values, no
\* reserved key takes the payload's value, and no other document changes.
C3_UpdateFrame ==
    [][(Answers("update") /\ resp'.status = 200) =>
          LET c == resp'.collection
              oid == ObjectId(resp'.doc_id)
              given == DOMAIN resp'.data \ Reserved
          IN  /\ oid \in DOMAIN store[c] /\ oid \in DOMAIN store'[c]
              /\ LET old == store[c][oid]
                     new == store'[c][oid]
                 IN  /\ DOMAIN new = DOMAIN old \cup given
                     /\ \A f \in given : new[f] = resp'.data[f]
                     /\ \A f \in DOMAIN old \ (given \cup {"updated_at"}) : new[f] = old[f]
                     /\ new["_id"] = old["_id"]
                     /\ new["created_at"] = old["created_at"]
                     /\ new["updated_at"].k = "datetime"
                     /\ new["updated_at"].n <= now
                     /\ \A f \in Reserved \cap DOMAIN resp'.data :
                           f \in DOMAIN new => new[f] # resp'.data[f]
              /\ \A d \in Collections :
                    /\ DOMAIN store'[d] = DOMAIN store[d]
                    /\ \A o \in DOMAIN store[d] :
                          (d # c \/ o # oid) => store'[d][o] = store[d][o]]_vars

\* An update that names every reserved key has succeeded.
C3_Witness ==
    /\ resp.op = "update" /\ resp.status = 200 /\ resp.data = Spoof
    /\ ObjectId(resp.doc_id) \in DOMAIN store[resp.collection]
    /\ store[resp.collection][ObjectId(resp.doc_id)]["chest_type"] = JStr("gold")

\* C4: in every step a stored document keeps its created_at, and its
\* updated_at does not decrease.
C4_Timestamps ==
    [][\A c \in Collections : \A oid \in DOMAIN store[c] \cap DOMAIN store'[c] :
          /\ store'[c][oid]["created_at"] = store[c][oid]["created_at"]
          /\ store'[c][oid]["updated_at"].n >= store[c][oid]["updated_at"].n]_vars

\* C5: a POST to a registered collection whose data fails the validation is
\* answered 422.
C5_InvalidPostIs422 ==
    (/\ resp.op = "create"
     /\ Registered(resp.collection)
     /\ ValidateModel(get_model_by_collection(resp.collection), resp.data).k = "error")
    => resp.status = 422

\* What the three by-id functions of database.py do with a malformed id: none
\* raises, none finds or touches a document.
MalformedIsAbsent ==
    \A c \in Collections, id \in Malformed :
        /\ get_document_by_id(db, store[c], id) = [raised |-> FALSE, doc |-> None]
        /\ \A data \in UpdateData :
              LET u == update_document(db, id, data, now)
              IN  ~u.raised /\ ~u.ok
        /\ delete_document(db, store[c], id)
             = [raised |-> FALSE, ok |-> FALSE, coll |-> store[c]]

\* The step answers a GET, PUT or DELETE of a malformed id on a registered
\* collection.
AnswersMalformed ==
    /\ Sent
    /\ resp'.op \in {"get", "update", "delete"}
    /\ resp'.doc_id \in Malformed
    /\ Registered(resp'.collection)

\* C6 as stated: a malformed id never raises and is not found; the routes
\* answer 404 and the store keeps its contents.
C6_Original ==
    [][/\ MalformedIsAbsent
       /\ AnswersMalformed => resp'.status = 404 /\ store' = store]_vars

\* C6 amended: where the database is configured (db is not None), a malformed
\* id never raises and is not found; the routes answer 404 and the store
\* keeps its contents.
C6_MalformedIdNotFound ==
    [][db => /\ MalformedIsAbsent
             /\ AnswersMalformed =>
                   /\ resp'.status = 404
                   /\ store' = store
                   /\ inflight' = inflight]_vars

\* A DELETE of a malformed id has been answered 404 while a document is stored.
C6_Witness ==
    /\ resp.op = "delete" /\ resp.doc_id \in Malformed /\ resp.status = 404
    /\ \E c \in Collections : store[c] # NoKids

\* C7: a DELETE of the id of a document of the collection answers {"ok": true}
\* and removes that document alone; a DELETE of a generated id the collection
\* does not hold answers 404 and changes nothing; and an id once generated and
\* absent from a collection stays absent from it.
C7_DeleteOnce ==
    [][/\ \A c \in Collections, id \in DocIds \ Malformed :
             (Answers("delete") /\ resp'.collection = c /\ resp'.doc_id = id
                /\ Registered(c) /\ \E k \in 0..(next_id - 1) : id = NewObjectId(k))
             => IF ObjectId(id) \in DOMAIN store[c]
                THEN /\ resp'.status = 200 /\ resp'.body = Ok
                     /\ store' = [store EXCEPT ![c] =
                                    [o \in DOMAIN store[c] \ {ObjectId(id)} |-> store[c][o]]]
                ELSE /\ resp'.status = 404
                     /\ store' = store
       /\ \A c \in Collections, k \in 0..(next_id - 1) :
             NewObjectId(k) \notin DOMAIN store[c]
                => /\ NewObjectId(k) \notin DOMAIN store'[c]
                   /\ get_document_by_id(db, store'[c], NewObjectId(k)).doc = None]_vars

\* A second DELETE of a document's id has been answered 404: the id was
\* generated, and no collection holds it any more.
C7_Witness ==
    /\ resp.op = "delete" /\ resp.status = 404
    /\ Registered(resp.collection)
    /\ next_id > 0 /\ resp.doc_id = NewObjectId(0)
    /\ \A c \in Collections : NewObjectId(0) \notin DOMAIN store[c]

RECURSIVE ConformsField(_, _), ConformsModel(_, _)

\* The object has no key outside the model's fields, has every required field,
\* and each field it has is of the field's type, range and values.
ConformsModel(m, obj) ==
    /\ DOMAIN obj \subseteq DOMAIN Models[m]
    /\ \A f \in DOMAIN Models[m] :
          IF f \in DOMAIN obj THEN ConformsField(Models[m][f], obj[f])
          ELSE Models[m][f].dk # "required"

ConformsField(d, v) ==
    LET each(elem) ==
            \A i \in DOMAIN v.c :
                IF elem \in DOMAIN Models
                THEN v.c[i].k = "obj" /\ ConformsModel(elem, v.c[i].c)
                ELSE ConformsField(Fld(elem), v.c[i])
    IN  CASE v.k = "null" -> d.opt
          [] v.k # "null" /\ d.t = "str" -> v.k = "str"
          [] v.k # "null" /\ d.t = "literal" -> v.k = "str" /\ v.s \in d.lits
          [] v.k # "null" /\ d.t = "int" -> v.k = "int" /\ InRange(d, v.n)
          [] v.k # "null" /\ d.t = "float" -> v.k = "float" /\ InRange(d, v.n)
          [] v.k # "null" /\ d.t = "bool" -> v.k = "bool"
          [] v.k # "null" /\ d.t = "model" -> v.k = "obj" /\ ConformsModel(d.ref, v.c)
          [] v.k # "null" /\ d.t = "list" -> v.k = "list" /\ each(d.ref)
          [] v.k # "null" /\ d.t = "dict" -> v.k = "obj" /\ each(d.ref)

\* C8: every document stored in a registered collection satisfies the shape
\* of the collection's model, its _id and timestamps aside.
C8_StoredShape ==
    \A c \in Collections : \A oid \in DOMAIN store[c] :
        Registered(c) =>
            ConformsModel(get_model_by_collection(c),
                          [f \in DOMAIN store[c][oid] \ {"_id", "created_at", "updated_at"} |->
                             store[c][oid][f]])

\* C9: a PUT whose update_one finds its document gone is answered 400
\* ("Update failed") and leaves the store as it is: the document stays absent.
C9_UpdateAfterDelete ==
    [][\A r \in BagToSet(inflight) :
          (/\ r.pc = "update_one"
           /\ Sent /\ inflight' = inflight (-) SetToBag({r})
           /\ ObjectId(r.doc_id) \notin DOMAIN store[r.collection])
          => /\ resp' = Response("update", r.collection, r.doc_id, r.data, 400, NoKids)
             /\ store' = store
             /\ ObjectId(r.doc_id) \notin DOMAIN store'[r.collection]]_vars

\* A PUT has been answered 400: its document was deleted after its existence
\* check.
C9_Witness ==
    /\ resp.op = "update" /\ resp.status = 400
    /\ ObjectId(resp.doc_id) \notin DOMAIN store[resp.collection]

\* C10: two names of one registered collection that differ in letter case
\* only give the same documents.
C10_CaseInsensitive ==
    \A a \in Collections, b \in Collections :
        (Registered(a) /\ Lower(a) = Lower(b)) =>
            /\ store[a] = store[b]
            /\ \A id \in DocIds :
                  get_document_by_id(db, store[a], id) = get_document_by_id(db, store[b], id)

=============================================================================
